---- MODULE Spec2Model ----
(***************************************************************************)
(* Model of the two forecasting scripts, series/Forecasting.py and         *)
(* series/CNNLSTM.py: the synthetic signal generator, the classical        *)
(* baselines (naive, moving average, differenced moving average) and the   *)
(* windowing pipeline feeding the network.                                 *)
(*                                                                         *)
(* Arrays are sequences; Python index i is position i + 1 (see At).        *)
(* The arrays are float32 in the code.  Here a float is an integer number  *)
(* of units with a Prec-bit significand, rounded to nearest, ties to even, *)
(* after every arithmetic operation, and NaN is one more value.            *)
(***************************************************************************)
EXTENDS Integers, Sequences, FiniteSets, Bags, TLC

\* ------------------------------------------------------------------ bounds
\* Bits of the significand (24 in float32).
Prec == 5
\* Longest series drawn in Init.
MaxLen == 5
\* Largest window of the script's moving averages.
MaxWin == 2
\* Largest batch_size and shuffle_buffer tried by windowed_dataset.
MaxBatch == 2
MaxBuffer == 2
\* Longest time axis, largest period (and phase), and largest amplitude and
\* slope the generator is called with.
MaxGenLen == 3
MaxPeriod == 5
MaxCoef == 1

\* ------------------------------------------------------------ float model
RECURSIVE Pow2(_)
Pow2(n) == IF n <= 0 THEN 1 ELSE 2 * Pow2(n - 1)

Abs(n) == IF n < 0 THEN -n ELSE n

\* Largest magnitude the model's values may take (no overflow below it).
MaxMag == Pow2(Prec + 3)

\* The not-a-number value: outside the range of the numbers.
NaN == MaxMag + 1

\* 2^Prec: the significands are the integers below it.
Radix == Pow2(Prec)

\* a / b (a >= 0, b > 0) to the nearest integer, ties to the even one.
NearestEven(a, b) ==
    LET fl == a \div b
        rem == a - fl * b
    IN  IF 2 * rem < b THEN fl
        ELSE IF 2 * rem > b THEN fl + 1
        ELSE IF fl % 2 = 0 THEN fl ELSE fl + 1

\* a / q (a >= 0, q > 0) rounded to a multiple of the spacing of its binade:
\* the least spacing, from unit on and doubling, at which its significand fits.
RECURSIVE RoundAt(_, _, _)
RoundAt(a, q, unit) ==
    IF a \div (q * unit) < Radix THEN NearestEven(a, q * unit) * unit
    ELSE RoundAt(a, q, 2 * unit)

\* The float nearest to p / q (q > 0), ties to the even significand.
Round(p, q) == IF p < 0 THEN -RoundAt(-p, q, 1) ELSE RoundAt(p, q, 1)

\* a + b, a - b and a / n on float32 arrays, as numpy computes them.
FAdd(a, b) == IF a = NaN \/ b = NaN THEN NaN ELSE Round(a + b, 1)
FSub(a, b) == IF a = NaN \/ b = NaN THEN NaN ELSE Round(a - b, 1)
FDiv(a, n) == IF a = NaN \/ n = 0 THEN NaN ELSE Round(a, n)

\* ----------------------------------------------------------- array helpers
\* Python's s[i].
At(s, i) == s[i + 1]

Min2(a, b) == IF a < b THEN a ELSE b
Max2(a, b) == IF a > b THEN a ELSE b

\* A slice bound as Python normalises it: a negative bound counts from the
\* end, and the result is clamped to [0, len].
Norm(i, len) == IF i < 0 THEN Max2(i + len, 0) ELSE Min2(i, len)

\* Python's s[a:b], s[a:] and s[:b].
Slice(s, a, b) ==
    LET lo == Norm(a, Len(s))
        hi == Norm(b, Len(s))
    IN  IF hi <= lo THEN << >> ELSE [k \in 1..(hi - lo) |-> s[lo + k]]
SliceFrom(s, a) == Slice(s, a, Len(s))
SliceTo(s, b) == Slice(s, 0, b)

\* numpy's float32 sum of a short array: left to right, rounded at each step.
RECURSIVE FSumTo(_, _)
FSumTo(s, n) == IF n = 0 THEN 0 ELSE FAdd(FSumTo(s, n - 1), s[n])
FSum(s) == FSumTo(s, Len(s))

\* ndarray.mean(): the sum over the count; NaN for an empty array.
Mean(s) == FDiv(FSum(s), Len(s))

\* numpy's rule for a + b on two 1-d arrays: equal lengths, or one of length 1
\* (broadcast); anything else raises ValueError.
Broadcastable(a, b) == Len(a) = Len(b) \/ Len(a) = 1 \/ Len(b) = 1

Pick(a, k) == IF Len(a) = 1 THEN a[1] ELSE a[k]

\* Elementwise a + b and a - b of two broadcastable arrays.
BroadcastLen(a, b) == IF Len(a) = 1 THEN Len(b) ELSE Len(a)
VecAdd(a, b) == [k \in 1..BroadcastLen(a, b) |-> FAdd(Pick(a, k), Pick(b, k))]
VecSub(a, b) == [k \in 1..BroadcastLen(a, b) |-> FSub(Pick(a, k), Pick(b, k))]

\* ---------------------------------------------------------- signal generator
\* Python's a % b for b /= 0: the result has the sign of b.
PyMod(a, b) == IF b > 0 THEN a % b ELSE -((-a) % (-b))

\* trend(time, slope) = slope * time
trend(time, slope) == [k \in DOMAIN time |-> slope * time[k]]

\* season_time = ((time + phase) % period) / period, one entry: the fraction
\* num / den with den > 0, or nan when period = 0 (numpy warns, does not raise).
NanTime == [f |-> "nan", num |-> 0, den |-> 1]
season_time(t, period, phase) ==
    IF period = 0 THEN NanTime
    ELSE [f |-> "num", num |-> Abs(PyMod(t + phase, period)), den |-> Abs(period)]

\* Mutant: season_time <= 0.4.
BelowBreak_inclusive(x) == x.f = "num" /\ 5 * x.num <= 2 * x.den

\* season_time < 0.4 (false for nan)
BelowBreak(x) == x.f = "num" /\ 5 * x.num < 2 * x.den

\* seasonal_pattern(season_time): np.where(x < 0.4, cos(2 pi x), 1 / exp(3 x));
\* cos and exp are left uninterpreted, and nan stays nan.
seasonal_pattern(x) ==
    IF x.f = "nan" THEN NanTime
    ELSE IF BelowBreak(x) THEN [f |-> "cos", num |-> x.num, den |-> x.den]
    ELSE [f |-> "exp", num |-> x.num, den |-> x.den]

\* seasonality(time, period, amplitude, phase)
seasonality(time, period, amplitude, phase) ==
    [k \in DOMAIN time |->
        [amp |-> amplitude, pat |-> seasonal_pattern(season_time(time[k], period, phase))]]

\* noise(time, noise_level, seed): len(time) seeded normal draws times the level.
noise(time, noise_level, seed) ==
    [k \in DOMAIN time |-> [level |-> noise_level, seed |-> seed, draw |-> k]]

\* time = np.arange(T)
arange(T) == [k \in 1..T |-> k - 1]

\* series = baseline + trend(time, slope) + seasonality(time, period, amplitude)
\* series += noise(time, noise_level, seed)
generate(T, baseline, slope, period, amplitude, phase, noise_level, seed) ==
    LET time == arange(T)
        tr == trend(time, slope)
        se == seasonality(time, period, amplitude, phase)
        no == noise(time, noise_level, seed)
    IN  [k \in 1..T |-> [base |-> baseline + tr[k], season |-> se[k], noise |-> no[k]]]

\* ------------------------------------------------------------- forecasters
\* Mutant: range(len(series) - window_size + 1), one window too many.
moving_average_forecast_inclusive(s, window_size) ==
    LET n == Max2(Len(s) - window_size + 1, 0)
    IN  [k \in 1..n |-> Mean(Slice(s, k - 1, k - 1 + window_size))]

\* moving_average_forecast(series, window_size): one mean per time in
\* range(len(series) - window_size); the range is empty when that is <= 0.
moving_average_forecast(s, window_size) ==
    LET n == Max2(Len(s) - window_size, 0)
    IN  [k \in 1..n |-> Mean(Slice(s, k - 1, k - 1 + window_size))]

\* Mutant: series[split_time:], the validation values themselves.
NaiveOf_unshifted(s, split) == Slice(s, split, Len(s))

\* naive_forecast = series[split_time - 1:-1]
NaiveOf(s, split) == Slice(s, split - 1, -1)

\* Mutant: the slice starts one forecast late, [split_time - 30 + 1:].
MovingAvgOf_late(s, split, w) == SliceFrom(moving_average_forecast(s, w), split - w + 1)

\* moving_avg = moving_average_forecast(series, 30)[split_time - 30:]
MovingAvgOf(s, split, w) == SliceFrom(moving_average_forecast(s, w), split - w)

\* Mutant: the operands swapped, series[:-365] - series[365:].
DiffSeriesOf_swapped(s, p) == VecSub(SliceTo(s, -p), SliceFrom(s, p))

\* diff_series = (series[365:] - series[:-365])
DiffSeriesOf(s, p) == VecSub(SliceFrom(s, p), SliceTo(s, -p))

\* diff_moving_avg = moving_average_forecast(diff_series, 50)[split_time - 365 - 50:]
DiffMovingAvgOf(s, split, p, w2) ==
    SliceFrom(moving_average_forecast(DiffSeriesOf(s, p), w2), split - p - w2)

\* Mutant: one step further back, series[split_time - 366:-366].
PastOf_older(s, split, p) == Slice(s, split - p - 1, -p - 1)

\* series[split_time - 365:-365], the values one period back
PastOf(s, split, p) == Slice(s, split - p, -p)

\* moving_average_forecast(series[split_time - 370:-360], 10)
\* with 370 = 365 + h, 360 = 365 - h and 10 = 2 * h (h = 5 in the code).
SmoothPastOf(s, split, p, h) ==
    moving_average_forecast(Slice(s, split - (p + h), -(p - h)), 2 * h)

\* ---------------------------------------------------------------- windowing
\* Mutant: drop_remainder=False, a window starts at every sample.
NumWindows_keep_remainder(s, size) == Len(s)

\* dataset.window(size, shift=1, drop_remainder=True).flat_map(batch(size)):
\* the number of full windows, and the window starting at k.
NumWindows(s, size) == Max2(Len(s) - size + 1, 0)
WindowAt(s, k, size) == Slice(s, k, k + size)

\* dataset.map(lambda window: (window[:-1], window[1:]))
InputTarget(window) == <<SliceTo(window, -1), SliceFrom(window, 1)>>

\* model.predict on one window: with return_sequences=True one output per
\* step, each an uninterpreted function of the whole window.
Predict(window) == [j \in 1..Len(window) |-> [step |-> j, window |-> window]]

\* model_forecast(model, series, window_size, batch_size): predict preserves
\* the order of the windows, whatever the batching.
model_forecast(s, w) == [k \in 1..NumWindows(s, w) |-> Predict(WindowAt(s, k - 1, w))]

\* Mutant: forecast[split_time - window_size + 1:, -1, 0], the windows that
\* end on the value they are compared with.
ForecastOf_ahead(s, split, w) ==
    LET rows == SliceFrom(model_forecast(s, w), split - w + 1)
    IN  [k \in 1..Len(rows) |-> At(rows[k], Norm(-1, Len(rows[k])))]

\* forecast = forecast[split_time - window_size:-1, -1, 0]
ForecastOf(s, split, w) ==
    LET rows == Slice(model_forecast(s, w), split - w, -1)
    IN  [k \in 1..Len(rows) |-> At(rows[k], Norm(-1, Len(rows[k])))]

\* ------------------------------------------------------------------- state
VARIABLES
    series,         \* the generated series, noise included (float32 values)
    pc,             \* what has run: "start", then the steps of one program
    call,           \* the last direct call of a function and what it returned
    split_time, window_size, period, window2, smooth,
    naive_forecast, moving_avg, diff_series, diff_moving_avg,
    diff_moving_avg_plus_past, diff_moving_avg_plus_smooth_past,
    dataset,        \* the windowed_dataset pipeline while it is iterated
    forecast        \* the network's forecast slice

consts == <<split_time, window_size, period, window2, smooth>>
outputs == <<naive_forecast, moving_avg, diff_series, diff_moving_avg,
             diff_moving_avg_plus_past, diff_moving_avg_plus_smooth_past>>

vars == <<series, pc, call, consts, outputs, dataset, forecast>>

\* The values the noisy series is drawn from: small ones, and one whose
\* differences with them need more than Prec bits.
Vals == {0, 1, Pow2(Prec) + 2}

\* The series of the spec's moving-average scenario.
ScenarioSeries == [k \in 1..10 |-> k - 1]

AllSeries(n) == [1..n -> Vals]

NoCall == [fn |-> "none"]
NoDataset == [state |-> "none"]

Init ==
    /\ series = << >>
    /\ pc = "start"
    /\ call = NoCall
    /\ split_time = 0 /\ window_size = 0 /\ period = 0 /\ window2 = 0 /\ smooth = 0
    /\ naive_forecast = << >> /\ moving_avg = << >> /\ diff_series = << >>
    /\ diff_moving_avg = << >> /\ diff_moving_avg_plus_past = << >>
    /\ diff_moving_avg_plus_smooth_past = << >>
    /\ dataset = NoDataset
    /\ forecast = << >>

\* The signal generator called with any arguments: the deterministic
\* components stay symbolic, so that the branch and the phase can be read off.
Generate ==
    /\ pc = "start"
    /\ \E T \in 0..MaxGenLen, baseline \in {0, 10}, slope \in 0..MaxCoef,
          p \in (-1)..MaxPeriod, amplitude \in 0..MaxCoef, phase \in (-1)..MaxPeriod,
          noise_level \in {0, 5} :
          call' = [fn |-> "generate", T |-> T, baseline |-> baseline, slope |-> slope,
                   period |-> p, amplitude |-> amplitude, phase |-> phase,
                   noise_level |-> noise_level, raised |-> FALSE,
                   series |-> generate(T, baseline, slope, p, amplitude, phase,
                                        noise_level, 42)]
    /\ pc' = "generated"
    /\ UNCHANGED <<series, consts, outputs, dataset, forecast>>

\* The scripts' series once the noise is added: any float32 values.
MakeSeries ==
    /\ pc = "start"
    /\ \E n \in 0..MaxLen : series' \in AllSeries(n)
    /\ pc' = "idle"
    /\ UNCHANGED <<call, consts, outputs, dataset, forecast>>

\* A direct call moving_average_forecast(s, w), any window size.
CallMovingAverage ==
    /\ pc = "idle"
    /\ \E s \in {series, ScenarioSeries}, w \in (-2)..(MaxLen + 1) :
          call' = [fn |-> "moving_average_forecast", series |-> s, window_size |-> w,
                   raised |-> FALSE, forecast |-> moving_average_forecast(s, w)]
    /\ pc' = "called"
    /\ UNCHANGED <<series, consts, outputs, dataset, forecast>>

\* time_valid, x_valid = time[split_time:], series[split_time:]
time_valid == SliceFrom(arange(Len(series)), split_time)
x_valid == SliceFrom(series, split_time)

\* plot_series(time_valid, y) and the error metrics need len(y) = len(x_valid).
Aligned(y) == Len(y) = Len(time_valid)

\* split_time = ...; time_train, x_train, time_valid, x_valid = ...
Split ==
    /\ pc = "idle"
    /\ \E s \in 1..(Len(series) - 1) : split_time' = s
    /\ pc' = "split"
    /\ UNCHANGED <<series, call, window_size, period, window2, smooth, outputs,
                   dataset, forecast>>

Naive ==
    /\ pc = "split"
    /\ naive_forecast' = NaiveOf(series, split_time)
    /\ pc' = IF Aligned(naive_forecast') THEN "naive" ELSE "error"
    /\ UNCHANGED <<series, call, consts, moving_avg, diff_series, diff_moving_avg,
                   diff_moving_avg_plus_past, diff_moving_avg_plus_smooth_past,
                   dataset, forecast>>

MovingAvg ==
    /\ pc = "naive"
    /\ \E w \in 1..MaxWin :
          /\ window_size' = w
          /\ moving_avg' = MovingAvgOf(series, split_time, w)
    /\ pc' = IF Aligned(moving_avg') THEN "moving_avg" ELSE "error"
    /\ UNCHANGED <<series, call, split_time, period, window2, smooth,
                   naive_forecast, diff_series, diff_moving_avg,
                   diff_moving_avg_plus_past, diff_moving_avg_plus_smooth_past,
                   dataset, forecast>>

Diff ==
    /\ pc = "moving_avg"
    /\ \E p \in 1..(Len(series) - 1) :
          /\ period' = p
          /\ diff_series' = DiffSeriesOf(series, p)
    /\ pc' = "diff"
    /\ UNCHANGED <<series, call, split_time, window_size, window2, smooth,
                   naive_forecast, moving_avg, diff_moving_avg,
                   diff_moving_avg_plus_past, diff_moving_avg_plus_smooth_past,
                   dataset, forecast>>

\* diff_moving_avg, and the two plots against time_valid that follow it.
DiffMovingAvg ==
    /\ pc = "diff"
    /\ \E w2 \in 1..MaxWin :
          /\ window2' = w2
          /\ diff_moving_avg' =
                SliceFrom(moving_average_forecast(diff_series, w2),
                          split_time - period - w2)
    /\ pc' = IF /\ Aligned(SliceFrom(diff_series, split_time - period))
                /\ Aligned(diff_moving_avg')
             THEN "diff_moving_avg" ELSE "error"
    /\ UNCHANGED <<series, call, split_time, window_size, period, smooth,
                   naive_forecast, moving_avg, diff_series,
                   diff_moving_avg_plus_past, diff_moving_avg_plus_smooth_past,
                   dataset, forecast>>

\* diff_moving_avg_plus_past = series[split_time - 365:-365] + diff_moving_avg
PlusPast ==
    /\ pc = "diff_moving_avg"
    /\ IF Broadcastable(PastOf(series, split_time, period), diff_moving_avg)
       THEN /\ diff_moving_avg_plus_past' =
                   VecAdd(PastOf(series, split_time, period), diff_moving_avg)
            /\ pc' = IF Aligned(diff_moving_avg_plus_past') THEN "plus_past" ELSE "error"
       ELSE /\ pc' = "error"
            /\ UNCHANGED diff_moving_avg_plus_past
    /\ UNCHANGED <<series, call, consts, naive_forecast, moving_avg, diff_series,
                   diff_moving_avg, diff_moving_avg_plus_smooth_past,
                   dataset, forecast>>

\* diff_moving_avg_plus_smooth_past = moving_average_forecast(...) + diff_moving_avg
PlusSmoothPast ==
    /\ pc = "plus_past"
    /\ \E h \in 1..(period - 1) :
          /\ smooth' = h
          /\ IF Broadcastable(SmoothPastOf(series, split_time, period, h), diff_moving_avg)
             THEN /\ diff_moving_avg_plus_smooth_past' =
                         VecAdd(SmoothPastOf(series, split_time, period, h), diff_moving_avg)
                  /\ pc' = IF Aligned(diff_moving_avg_plus_smooth_past')
                           THEN "done" ELSE "error"
             ELSE /\ pc' = "error"
                  /\ UNCHANGED diff_moving_avg_plus_smooth_past
    /\ UNCHANGED <<series, call, split_time, window_size, period, window2,
                   naive_forecast, moving_avg, diff_series, diff_moving_avg,
                   diff_moving_avg_plus_past, dataset, forecast>>

\* ------------------------------------------------- windowed_dataset, iterated
\* windowed_dataset(series, window_size, batch_size, shuffle_buffer): the
\* pipeline is built; nothing is read yet.  (expand_dims only adds an axis.)
WindowedDataset ==
    /\ pc = "idle"
    /\ \E w \in 1..MaxWin, b \in 1..MaxBatch, sb \in 1..MaxBuffer :
          dataset' = [state |-> "iterating", window_size |-> w, batch_size |-> b,
                      shuffle_buffer |-> sb, next |-> 0, buffer |-> EmptyBag,
                      batch |-> << >>, out |-> << >>]
    /\ pc' = "dataset"
    /\ UNCHANGED <<series, call, consts, outputs, forecast>>

\* Full windows of window_size + 1 samples are left upstream of the shuffle.
Upstream == dataset.next < NumWindows(series, dataset.window_size + 1)

\* shuffle: the buffer takes the next window while it has room.
Fill ==
    /\ pc = "dataset"
    /\ Upstream
    /\ BagCardinality(dataset.buffer) < dataset.shuffle_buffer
    /\ dataset' = [dataset EXCEPT
          !.buffer = @ (+) SetToBag({WindowAt(series, dataset.next,
                                              dataset.window_size + 1)}),
          !.next = @ + 1]
    /\ UNCHANGED <<series, pc, call, consts, outputs, forecast>>

\* shuffle hands on a window of its buffer chosen at random, once the buffer
\* is full or the input is exhausted; map splits it into (input, target);
\* batch collects batch_size pairs before it emits them.
Emit ==
    /\ pc = "dataset"
    /\ ~Upstream \/ BagCardinality(dataset.buffer) = dataset.shuffle_buffer
    /\ \E window \in BagToSet(dataset.buffer) :
          LET filled == Append(dataset.batch, InputTarget(window))
              full == Len(filled) = dataset.batch_size
          IN  dataset' = [dataset EXCEPT
                 !.buffer = @ (-) SetToBag({window}),
                 !.batch = IF full THEN << >> ELSE filled,
                 !.out = IF full THEN Append(@, filled) ELSE @]
    /\ UNCHANGED <<series, pc, call, consts, outputs, forecast>>

\* End of the pass: batch emits what it holds, a last batch that may be short.
EndOfPass ==
    /\ pc = "dataset"
    /\ ~Upstream
    /\ dataset.buffer = EmptyBag
    /\ dataset' = [dataset EXCEPT
          !.state = "exhausted",
          !.batch = << >>,
          !.out = IF dataset.batch = << >> THEN @ ELSE Append(@, dataset.batch)]
    /\ pc' = "dataset_done"
    /\ UNCHANGED <<series, call, consts, outputs, forecast>>

\* forecast = model_forecast(model, series[..., np.newaxis], window_size, batch_size)
\* forecast = forecast[split_time - window_size:-1, -1, 0]
ModelForecast ==
    /\ pc = "idle"
    /\ \E s \in 1..(Len(series) - 1), w \in 1..MaxWin :
          /\ split_time' = s
          /\ window_size' = w
          /\ forecast' = ForecastOf(series, s, w)
    /\ pc' = "forecast"
    /\ UNCHANGED <<series, call, period, window2, smooth, outputs, dataset>>

Next ==
    \/ Generate \/ MakeSeries \/ CallMovingAverage
    \/ Split \/ Naive \/ MovingAvg \/ Diff \/ DiffMovingAvg \/ PlusPast \/ PlusSmoothPast
    \/ WindowedDataset \/ Fill \/ Emit \/ EndOfPass
    \/ ModelForecast

Spec == Init /\ [][Next]_vars

\* ------------------------------------------------------------------ claims
T == Len(series)

\* Every float the scripts compute is NaN or within the range of the model's
\* floats: no sum overflows.
InRange ==
    \A a \in {series, naive_forecast, moving_avg, diff_series, diff_moving_avg,
              diff_moving_avg_plus_past, diff_moving_avg_plus_smooth_past} :
        \A k \in 1..Len(a) : a[k] \in (-MaxMag)..NaN

\* The script's positions once each forecast has been computed.
AfterNaive == {"naive", "moving_avg", "diff", "diff_moving_avg", "plus_past", "done", "error"}
AfterMovingAvg == AfterNaive \ {"naive"}
AfterDiff == {"diff", "diff_moving_avg", "plus_past", "done"} \cup
             (IF period > 0 THEN {"error"} ELSE {})

\* The float32 sum of s[lo], ..., s[hi] (Python indices), left to right.
RECURSIVE SumFromTo(_, _, _)
SumFromTo(s, lo, hi) == IF hi < lo THEN 0 ELSE FAdd(SumFromTo(s, lo, hi - 1), At(s, hi))

\* The mean of the w values s[i], ..., s[i + w - 1].
WindowMean(s, i, w) == FDiv(SumFromTo(s, i, i + w - 1), w)

\* n needs no rounding.
Exact(n) == Round(n, 1) = n

\* C1: moving_average_forecast(series, w) with w >= 1 returns max(0, N - w)
\* values, the i-th the mean of series[i], ..., series[i + w - 1]; it is empty
\* when w >= N, no error is raised, and series 0..9 with w = 3 gives 1..7.
C1_MovingAverageForecast ==
    (pc = "called" /\ call.fn = "moving_average_forecast" /\ call.window_size >= 1) =>
        LET s == call.series
            w == call.window_size
            f == call.forecast
        IN  /\ ~call.raised
            /\ Len(f) = Max2(0, Len(s) - w)
            /\ \A i \in 0..(Len(s) - w - 1) : At(f, i) = WindowMean(s, i, w)
            /\ (w >= Len(s) => f = << >>)
            /\ (s = ScenarioSeries /\ w = 3 => f = <<1, 2, 3, 4, 5, 6, 7>>)

C1_Witness ==
    /\ pc = "called" /\ call.fn = "moving_average_forecast"
    /\ call.series = ScenarioSeries /\ call.window_size = 3
    /\ Len(call.forecast) = 7

\* C3: the naive forecast has T - split values and its i-th value is
\* series[split - 1 + i]; in particular the first is series[split - 1].
C3_NaiveForecast ==
    pc \in AfterNaive =>
        /\ Len(naive_forecast) = T - split_time
        /\ \A i \in 0..(T - split_time - 1) :
              At(naive_forecast, i) = At(series, split_time - 1 + i)
        /\ At(naive_forecast, 0) = At(series, split_time - 1)

C3_Witness ==
    /\ pc = "naive" /\ Len(naive_forecast) >= 2
    /\ At(series, split_time - 1) # At(series, split_time)
    /\ At(naive_forecast, 0) = At(series, split_time - 1)

\* C4: with window_size = 1 the moving-average forecast slice
\* moving_average_forecast(series, 1)[split - 1:] equals series[split - 1 : T - 1]
\* element for element, which is the naive forecast.
C4_WindowOneIsNaive ==
    (pc \in AfterMovingAvg /\ window_size = 1) =>
        /\ Len(moving_avg) = T - split_time
        /\ \A i \in 0..(T - split_time - 1) :
              At(moving_avg, i) = At(series, split_time - 1 + i)
        /\ moving_avg = naive_forecast

C4_Witness ==
    /\ pc = "moving_avg" /\ window_size = 1 /\ Len(moving_avg) >= 2
    /\ At(moving_avg, 0) # At(moving_avg, 1)
    /\ moving_avg = naive_forecast

\* C8 as stated: diff_series has T - period values and adding series[t - period]
\* back to diff_series[t - period] gives series[t] exactly, for every t >= period.
C8_RoundTripExact ==
    pc \in AfterDiff =>
        /\ Len(diff_series) = T - period
        /\ \A t \in period..(T - 1) :
              FAdd(At(diff_series, t - period), At(series, t - period)) = At(series, t)

\* C8 amended: diff_series has T - period values, diff_series[t - period] is the
\* float32 difference series[t] - series[t - period], and adding series[t - period]
\* back gives series[t] exactly whenever that difference needed no rounding.
C8_RoundTripWhenExact ==
    pc \in AfterDiff =>
        /\ Len(diff_series) = T - period
        /\ \A t \in period..(T - 1) :
              /\ At(diff_series, t - period) =
                    Round(At(series, t) - At(series, t - period), 1)
              /\ Exact(At(series, t) - At(series, t - period)) =>
                    FAdd(At(diff_series, t - period), At(series, t - period)) = At(series, t)

C8_Witness ==
    /\ pc = "diff" /\ Len(diff_series) >= 2
    /\ \E t \in period..(T - 1) :
          /\ At(series, t) # At(series, t - period)
          /\ Exact(At(series, t) - At(series, t - period))
          /\ FAdd(At(diff_series, t - period), At(series, t - period)) = At(series, t)
    /\ \E t \in period..(T - 1) : ~Exact(At(series, t) - At(series, t - period))

\* The script has computed diff_moving_avg_plus_past.
PlusPastDone == pc \in {"plus_past", "done"} \/ (pc = "error" /\ smooth > 0)

\* The float32 sum and mean of diff[lo], ..., diff[hi], where
\* diff[u] = series[u] - series[u - p].
RECURSIVE DiffSumFromTo(_, _, _, _)
DiffSumFromTo(s, p, lo, hi) ==
    IF hi < lo THEN 0
    ELSE FAdd(DiffSumFromTo(s, p, lo, hi - 1), FSub(At(s, hi), At(s, hi - p)))
DiffMean(s, p, lo, hi) == FDiv(DiffSumFromTo(s, p, lo, hi), hi - lo + 1)

\* C2: with split >= period + window2 the differenced moving-average forecast has
\* T - split values, and at validation index i (t = split + i) it is
\* series[t - p] plus the mean of diff[t - w2], ..., diff[t - 1]; the smoothed
\* variant (split >= p + h too) replaces series[t - p] by the mean of the 2h
\* values series[t - p - h], ..., series[t - p + h - 1] (370 .. 361 back in the
\* code) and has T - split values.  Under that condition neither sum fails.
C2_DifferencedForecastAligned ==
    split_time >= period + window2 =>
        /\ PlusPastDone =>
              /\ Len(diff_moving_avg_plus_past) = T - split_time
              /\ \A i \in 0..(T - split_time - 1) :
                    LET t == split_time + i
                    IN  At(diff_moving_avg_plus_past, i) =
                           FAdd(At(series, t - period),
                                DiffMean(series, period, t - window2, t - 1))
        /\ (pc = "error" /\ window2 > 0) => (smooth > 0 /\ split_time < period + smooth)
        /\ (pc \in {"done", "error"} /\ smooth > 0 /\ split_time >= period + smooth) =>
              /\ pc = "done"
              /\ Len(diff_moving_avg_plus_smooth_past) = T - split_time
              /\ \A i \in 0..(T - split_time - 1) :
                    LET t == split_time + i
                    IN  At(diff_moving_avg_plus_smooth_past, i) =
                           FAdd(WindowMean(series, t - period - smooth, 2 * smooth),
                                DiffMean(series, period, t - window2, t - 1))

C2_Witness ==
    /\ pc = "done" /\ split_time >= period + window2 /\ split_time >= period + smooth
    /\ Len(diff_moving_avg_plus_smooth_past) >= 2
    /\ Len(diff_moving_avg_plus_past) >= 2
    /\ At(diff_moving_avg_plus_past, 0) # At(diff_moving_avg_plus_past, 1)
    /\ At(diff_moving_avg_plus_past, 0) # At(diff_moving_avg_plus_smooth_past, 0)

\* The series that differ from s in the value at index j alone.  Every series
\* is reachable, so what holds of one change in every state holds of any
\* number of changes.
Variants(s, j) == {[s EXCEPT ![j + 1] = v] : v \in Vals \ {At(s, j)}}

\* The forecast F has T - split values and its value at validation index i
\* stays the same when a series value at an index >= split + i changes.
NoLookAhead(F(_)) ==
    LET own == F(series)
    IN  /\ Len(own) = T - split_time
        /\ \A j \in split_time..(T - 1) :
              \A s2 \in Variants(series, j) :
                 LET other == F(s2)
                 IN  \A i \in 0..(j - split_time) : At(other, i) = At(own, i)

\* C10: every forecast compared with the validation segment (naive, moving
\* average, differenced moving average plus past, plus smoothed past, and the
\* network's forecast slice), the windows and offsets fitting below split as in
\* the scripts, has T - split values, and its value at validation index i is
\* computed from series values at indices below split + i only.
C10_NoLookAhead ==
    /\ pc = "naive" =>
          /\ naive_forecast = NaiveOf(series, split_time)
          /\ NoLookAhead(LAMBDA s : NaiveOf(s, split_time))
    /\ (pc = "moving_avg" /\ window_size <= split_time) =>
          /\ moving_avg = MovingAvgOf(series, split_time, window_size)
          /\ NoLookAhead(LAMBDA s : MovingAvgOf(s, split_time, window_size))
    /\ (pc = "plus_past" /\ split_time >= period + window2) =>
          /\ diff_moving_avg_plus_past =
                VecAdd(PastOf(series, split_time, period),
                       DiffMovingAvgOf(series, split_time, period, window2))
          /\ NoLookAhead(LAMBDA s : VecAdd(PastOf(s, split_time, period),
                            DiffMovingAvgOf(s, split_time, period, window2)))
    /\ (pc = "done" /\ split_time >= period + window2
                    /\ split_time >= period + smooth) =>
          /\ diff_moving_avg_plus_smooth_past =
                VecAdd(SmoothPastOf(series, split_time, period, smooth),
                       DiffMovingAvgOf(series, split_time, period, window2))
          /\ NoLookAhead(LAMBDA s : VecAdd(SmoothPastOf(s, split_time, period, smooth),
                            DiffMovingAvgOf(s, split_time, period, window2)))
    /\ (pc = "forecast" /\ window_size <= split_time) =>
          /\ forecast = ForecastOf(series, split_time, window_size)
          /\ NoLookAhead(LAMBDA s : ForecastOf(s, split_time, window_size))

C10_Witness ==
    /\ pc = "forecast" /\ window_size = 2 /\ window_size <= split_time
    /\ Len(forecast) >= 2
    /\ At(forecast, 0).window = Slice(series, split_time - 2, split_time)
    /\ At(forecast, 0) # At(forecast, 1)

\* The pairs a pass has emitted so far, in order: the batches, then the pairs
\* batch still holds.
RECURSIVE Flatten(_)
Flatten(batches) == IF batches = << >> THEN << >> ELSE Head(batches) \o Flatten(Tail(batches))
Emitted == Flatten(dataset.out) \o dataset.batch

RECURSIVE SeqToBag(_)
SeqToBag(q) == IF q = << >> THEN EmptyBag ELSE SetToBag({Head(q)}) (+) SeqToBag(Tail(q))

\* The pair of slice start k: input series[k .. k + w - 1], target
\* series[k + 1 .. k + w].
PairOf(k, w) == <<[j \in 1..w |-> At(series, k + j - 1)], [j \in 1..w |-> At(series, k + j)]>>
AllPairs(w) == [k \in 1..Max2(T - w, 0) |-> PairOf(k - 1, w)]

\* C5: one pass over windowed_dataset emits one (input, target) pair per slice
\* start k in [0, N - w) and no others, input = series[k .. k + w - 1] and
\* target = series[k + 1 .. k + w] (so target[j] = input[j + 1]); whatever the
\* shuffle order, the emitted pairs are that multiset, each pair from one slice.
C5_WindowedDatasetPairs ==
    pc \in {"dataset", "dataset_done"} =>
        LET w == dataset.window_size
        IN  /\ SeqToBag(Emitted) \sqsubseteq SeqToBag(AllPairs(w))
            /\ \A n \in 1..Len(Emitted) :
                  /\ Len(Emitted[n][1]) = w /\ Len(Emitted[n][2]) = w
                  /\ \A j \in 0..(w - 2) : At(Emitted[n][2], j) = At(Emitted[n][1], j + 1)
            /\ pc = "dataset_done" =>
                  /\ Len(Emitted) = Max2(T - w, 0)
                  /\ SeqToBag(Emitted) = SeqToBag(AllPairs(w))
                  /\ (T <= w => dataset.out = << >>)

C5_Witness ==
    /\ pc = "dataset_done" /\ dataset.window_size = 2 /\ dataset.shuffle_buffer = 2
    /\ Len(Emitted) = 3
    /\ Emitted[1] # PairOf(0, 2)
    /\ Cardinality({Emitted[n] : n \in 1..3}) = 3

\* C6 as stated: a call with period <= 0 fails with an invalid-argument error
\* and returns no series values.
C6_NonPositivePeriodRaises ==
    (pc = "generated" /\ call.period <= 0) => (call.raised /\ call.series = << >>)

\* C7 as stated: moving_average_forecast with window_size <= 0 fails with an
\* invalid-argument error instead of returning a forecast.
C7_NonPositiveWindowRaises ==
    (pc = "called" /\ call.fn = "moving_average_forecast" /\ call.window_size <= 0) =>
        (call.raised /\ call.forecast = << >>)

\* C9: for period > 0 the generated series has T values; at t its trend part is
\* baseline + slope * t, its seasonal part amplitude * seasonal_pattern(x) with
\* x = ((t + phase) mod period) / period in [0, 1), on the cosine branch exactly
\* when x < 0.4 and on the exponential branch otherwise, and no noise is added
\* at noise level 0; the seasonal part repeats with the period.
C9_GeneratedSeries ==
    (pc = "generated" /\ call.period > 0) =>
        /\ Len(call.series) = call.T
        /\ \A t \in 0..(call.T - 1) :
              LET v == At(call.series, t)
                  x == v.season.pat
                  m == CHOOSE r \in 0..(call.period - 1) :
                          \E q \in (-2)..(call.T + MaxPeriod) :
                             t + call.phase = q * call.period + r
              IN  /\ v.base = call.baseline + call.slope * t
                  /\ v.season.amp = call.amplitude
                  /\ x.num = m /\ x.den = call.period
                  /\ 0 <= x.num /\ x.num < x.den
                  /\ x.f \in {"cos", "exp"}
                  /\ (x.f = "cos") <=> (5 * x.num < 2 * x.den)
                  /\ v.noise.level = call.noise_level
                  /\ seasonality(<<t + call.period>>, call.period,
                                 call.amplitude, call.phase)[1] = v.season

C9_Witness ==
    /\ pc = "generated" /\ call.period = 5 /\ call.T = 3 /\ call.noise_level = 0
    /\ call.phase = 1 /\ call.amplitude = 1 /\ call.slope = 1
    /\ At(call.series, 0).season.pat.f = "cos"
    /\ At(call.series, 1).season.pat = [f |-> "exp", num |-> 2, den |-> 5]

====
